---- MODULE Spec2Model ----
(***************************************************************************)
(* Model of the Lighthouse batch runner.                                   *)
(*                                                                         *)
(* The repository holds two scripts:                                       *)
(*   src/index.js          the sequential runner with retries ("index")    *)
(*   src/unnamed/part_000  the batched runner without retries  ("batch")   *)
(* Both are modelled; the variable `program` says which one is running.    *)
(*                                                                         *)
(* Text is a sequence of one-character strings, so that trim, startsWith   *)
(* and URL parsing are computed and not assumed.  JavaScript values that   *)
(* can be of several types (a score is a number or "N/A", an error is a    *)
(* message or null, a field may be missing) are tagged records.            *)
(***************************************************************************)
EXTENDS Integers, Sequences, FiniteSets, TLC

(***************************************************************************)
(* Bounds of the model.                                                    *)
(***************************************************************************)
MaxUrls == 2
MaxRetries == 2
MaxBatch == 2
MaxLines == 2
MaxHost == 3
MaxBatchUrls == 3

(***************************************************************************)
(* JavaScript values.                                                      *)
(***************************************************************************)
Num(n) == [num |-> n]
Str(s) == [str |-> s]
JSNull == [null |-> TRUE]
JSUndefined == [undefined |-> TRUE]
JSNaN == [nan |-> TRUE]

IsNum(v) == "num" \in DOMAIN v
IsStr(v) == "str" \in DOMAIN v

\* ToBoolean: 0, NaN, "", null and undefined are falsy.
Truthy(v) ==
    IF IsNum(v) THEN v.num # 0
    ELSE IF IsStr(v) THEN v.str # ""
    ELSE FALSE

\* a || b
Or(a, b) == IF Truthy(a) THEN a ELSE b

\* r.f, undefined when the object has no such property
Get(r, f) == IF f \in DOMAIN r THEN r[f] ELSE JSUndefined

\* a <= b on numbers; any comparison with NaN is false
LessEq(a, b) == IsNum(a) /\ IsNum(b) /\ a.num <= b.num
Greater(a, b) == IsNum(a) /\ IsNum(b) /\ a.num > b.num

\* a + 1
Inc(a) == IF IsNum(a) THEN Num(a.num + 1) ELSE JSNaN

(***************************************************************************)
(* Text: sequences of characters.                                          *)
(***************************************************************************)
Letters == {"a", "b", "c", "d", "e", "f", "h", "l", "m", "n", "o", "p",
            "r", "s", "t", "u", "v", "x", "y", "i"}

RECURSIVE TrimStart(_)
TrimStart(s) ==
    IF s # <<>> /\ Head(s) = " " THEN TrimStart(Tail(s)) ELSE s

RECURSIVE TrimEnd(_)
TrimEnd(s) ==
    IF s # <<>> /\ s[Len(s)] = " " THEN TrimEnd(SubSeq(s, 1, Len(s) - 1)) ELSE s

\* String.prototype.trim
Trim(s) == TrimEnd(TrimStart(s))

\* String.prototype.startsWith
StartsWith(s, p) == Len(s) >= Len(p) /\ SubSeq(s, 1, Len(p)) = p

Http == <<"h", "t", "t", "p">>

\* position of the first ":" of s, 0 when there is none
FirstColon(s) ==
    IF \E i \in 1..Len(s) : s[i] = ":"
    THEN CHOOSE i \in 1..Len(s) : s[i] = ":" /\ \A j \in 1..(i - 1) : s[j] # ":"
    ELSE 0

RECURSIVE StripSlashes(_)
StripSlashes(s) ==
    IF s # <<>> /\ Head(s) = "/" THEN StripSlashes(Tail(s)) ELSE s

SpecialSchemes == { <<"h", "t", "t", "p">>, <<"h", "t", "t", "p", "s">>,
                    <<"f", "t", "p">> }

\* new URL(s) does not throw: s has a scheme (letters before the first ":"),
\* and a special scheme (http, https, ftp) is followed by a non-empty host.
ParsesAsUrl(s) ==
    LET c == FirstColon(s)
        scheme == SubSeq(s, 1, c - 1)
        rest == SubSeq(s, c + 1, Len(s))
    IN  /\ c > 1
        /\ \A i \in 1..(c - 1) : s[i] \in Letters
        /\ \A i \in 1..Len(s) : s[i] # " "
        /\ scheme \in SpecialSchemes => StripSlashes(rest) # <<>>

validateUrl(url) == ParsesAsUrl(url)

\* lines.map((l) => l.trim())
TrimAll(lines) == [i \in 1..Len(lines) |-> Trim(lines[i])]

\* a JavaScript string held as text, and the same as a literal
Txt(chars) == [txt |-> chars]

(***************************************************************************)
(* URL loading.                                                            *)
(***************************************************************************)
\* the lines a URL file may hold
LineGood == <<"h", "t", "t", "p", "s", ":", "/", "/", "a", ".", "b">>
LinePadded == <<" ", "h", "t", "t", "p", ":", "/", "/", "c", " ">>
LineNoColon == <<"h", "t", "t", "p", "/", "/", "d">>
LineFtp == <<"f", "t", "p", ":", "/", "/", "e">>
LineBlank == <<>>
LineSet == {LineGood, LinePadded, LineNoColon, LineFtp, LineBlank}

\* index.js: the built-in default set
defaultUrlsIndex ==
    << <<"h", "t", "t", "p", "s", ":", "/", "/", "a", "s", "c", "e", "n", "t", "e", "n", ".", "n", "e", "t", "/", "c", "u", "l", "t", "u", "r", "e", ".", "h", "t", "m", "l">>,
       <<"h", "t", "t", "p", "s", ":", "/", "/", "a", "s", "c", "e", "n", "t", "e", "n", ".", "n", "e", "t", "/", "a", "f", "f", "i", "r", "m", "a", "t", "i", "v", "e", "-", "a", "c", "t", "i", "o", "n", "-", "p", "o", "l", "i", "c", "y", ".", "h", "t", "m", "l">> >>

\* the batched script: the built-in default set
defaultUrlsBatch == <<>>

\* fs.readFileSync(path).split("\n"): throws ENOENT when the file is absent
readFileSync(exists, lines) ==
    IF exists THEN [threw |-> FALSE, lines |-> lines]
    ELSE [threw |-> TRUE, lines |-> <<>>]

\* index.js loadUrls(): [threw, urls].  The file is read when existsSync
\* says it is NOT there; when it is there urlList stays empty.
loadUrlsIndex(exists, lines) ==
    IF ~exists
    THEN LET rd == readFileSync(exists, lines)
             urlList == SelectSeq(TrimAll(rd.lines),
                            LAMBDA l : StartsWith(l, Http) /\ validateUrl(l))
         IN  IF rd.threw THEN [threw |-> TRUE, urls |-> <<>>]
             ELSE [threw |-> FALSE,
                   urls |-> IF Len(urlList) # 0 THEN urlList ELSE defaultUrlsIndex]
    ELSE [threw |-> FALSE, urls |-> defaultUrlsIndex]

\* the batched script, top level: urls
loadUrlsBatch(exists, lines) ==
    LET urlList == IF exists
                   THEN SelectSeq(TrimAll(lines), LAMBDA l : StartsWith(l, Http))
                   ELSE <<>>
    IN  IF Len(urlList) # 0 THEN urlList ELSE defaultUrlsBatch

(***************************************************************************)
(* The collaborators: what a browser launch, an engine call, the two       *)
(* report writes and a browser kill can answer.                            *)
(***************************************************************************)
LaunchError == "launch failed"
EngineErrors == {"timeout", "navigation failed"}
WriteError == "write failed"
KillError == "kill failed"
TypeError == "cannot read properties of undefined"
UrlError == "invalid URL"

Ok == [ok |-> TRUE]
Throw(e) == [ok |-> FALSE, error |-> e]

LaunchOutcomes == {Ok, Throw(LaunchError)}
KillOutcomes == {Ok, Throw(KillError)}
\* which of the two writeFileSync calls throws, if one does
WriteOutcomes == {"ok", "json throws", "html throws"}

\* Category scores of the engine's result, in thousandths (score * 1000);
\* a category the engine omits is undefined.
Cat(t) == [score |-> t]
Lhr(p, a, b, s) == [performance |-> p, accessibility |-> a, bestPractices |-> b, seo |-> s]
LhrSet == { Lhr(Cat(1000), Cat(1000), Cat(1000), Cat(1000)),
            Lhr(Cat(0), Cat(895), Cat(504), Cat(880)),
            Lhr(JSUndefined, Cat(950), Cat(1000), Cat(880)) }
EngineOutcomes == {[ok |-> TRUE, lhr |-> l] : l \in LhrSet}
                     \cup {Throw(e) : e \in EngineErrors}

\* Math.round(score * 100), score in thousandths
Round100(t) == (t + 5) \div 10

NA == Str("N/A")

\* safeName(url) throws when new URL(url) does
safeNameThrows(url) == ~ParsesAsUrl(url)

\* s.replace(/[...]/g, to): every character of `from` replaced
ReplaceAll(s, from, to) == [i \in 1..Len(s) |-> IF s[i] \in from THEN to ELSE s[i]]

\* the characters that end the host of an authority
HostEnd == {"/", ":", "?", "#"}

RECURSIVE UpToHostEnd(_)
UpToHostEnd(s) ==
    IF s = <<>> \/ Head(s) \in HostEnd THEN <<>>
    ELSE <<Head(s)>> \o UpToHostEnd(Tail(s))

\* new URL(url).hostname of an http(s) URL without credentials: what
\* follows "scheme://" up to the port, path, query or fragment
Hostname(url) ==
    UpToHostEnd(StripSlashes(SubSeq(url, FirstColon(url) + 1, Len(url))))

\* new Date(t).toISOString(), t milliseconds (0..9) after the epoch
toISOString(t) ==
    <<"1", "9", "7", "0", "-", "0", "1", "-", "0", "1", "T",
      "0", "0", ":", "0", "0", ":", "0", "0", ".", "0", "0", ToString(t), "Z">>

\* safeName(url), called when the clock reads `now`
safeName(url, now) ==
    LET host == ReplaceAll(Hostname(url), {"."}, "_")
        stamp == ReplaceAll(toISOString(now), {":", "."}, "-")
    IN  host \o <<"_", "_">> \o stamp

(***************************************************************************)
(* Result records.                                                         *)
(***************************************************************************)
\* index.js runLighthouse: cat ? Math.round(cat.score * 100) : "N/A"
ScoreIndex(cat) == IF cat # JSUndefined THEN Num(Round100(cat.score)) ELSE NA

\* index.js runLighthouse, the record of the try block
SuccessIndex(url, lhr) ==
    [url |-> Txt(url),
     Performance |-> ScoreIndex(lhr.performance),
     Accessibility |-> ScoreIndex(lhr.accessibility),
     BestPractices |-> ScoreIndex(lhr.bestPractices),
     SEO |-> ScoreIndex(lhr.seo),
     error |-> JSNull]

\* index.js runLighthouse, the record of the catch block (and the one
\* runLighthouseWithRetry builds)
FailureIndex(url, e) ==
    [url |-> Txt(url), error |-> Str(e),
     Performance |-> NA, Accessibility |-> NA, BestPractices |-> NA, SEO |-> NA]

\* the batched script: reading cat.score of a missing category throws
ScoresThrowBatch(lhr) ==
    \E c \in {lhr.performance, lhr.accessibility, lhr.bestPractices, lhr.seo} :
        c = JSUndefined

SuccessBatch(url, lhr) ==
    [url |-> Txt(url),
     Performance |-> Num(Round100(lhr.performance.score)),
     Accessibility |-> Num(Round100(lhr.accessibility.score)),
     BestPractices |-> Num(Round100(lhr.bestPractices.score)),
     SEO |-> Num(Round100(lhr.seo.score))]

\* the batched script: .catch((err) => ({ url: u, error: err.message }))
FailureBatch(url, e) == [url |-> Txt(url), error |-> Str(e)]

(***************************************************************************)
(* State.                                                                  *)
(***************************************************************************)
VARIABLES
    program,     \* "index" (src/index.js) or "batch" (the batched script)
    pc,          \* the main flow: "load", "run", "exit"; "call" when the
                 \* scheduler function is entered directly, "name" when
                 \* safeName is
    exitCode,    \* the exit status once pc = "exit", -1 before
    fileExists,  \* whether the URL file is there
    fileLines,   \* its lines
    urls,        \* the URL list given to the scheduler
    maxRetries,  \* index.js: parseInt(options.retries)
    batchSize,   \* the batched script: the batchSize argument
    results,     \* the scheduler's results array
    sched,       \* the scheduler: [pc, k, paces]; k is `completed`
                 \* (index.js) or the offset of the running batch, paces
                 \* the number of pacing waits begun
    job,         \* per URL position: the state of its job
    live,        \* number of browser processes launched and not killed
    order,       \* the positions of the jobs, in the order they settled
    csv,         \* the summary file: its lines, <<>> while not written
    csvWrites,   \* how many times the summary file was written
    named        \* report naming alone: the URLs and clock readings given to
                 \* safeName, and the names it gave

vars == <<program, pc, exitCode, fileExists, fileLines, urls, maxRetries,
          batchSize, results, sched, job, live, order, csv, csvWrites, named>>

\* no report naming under way
NotNamed == [urls |-> <<>>, now |-> <<>>, names |-> <<>>]

\* the `chrome` of a runLighthouse call: whether launch() gave a process,
\* and how many times its kill() was called
NoChrome == [launched |-> FALSE, kills |-> 0]

\* a job before its first step
\* pc       where the job is: "idle", "launch", "engine", "kill", "backoff",
\*          "done" (its promise fulfilled), "rejected" (its promise
\*          rejected), "collected" (result taken)
\* attempt  the loop variable of runLighthouseWithRetry
\* pend     what runLighthouse holds while kill() is awaited
\* ret      what the job's promise settled with
\* calls, launchFails, engineCalls, fails, last: history of the job, kept
\*          for the properties: runLighthouse calls, launch() calls that
\*          threw, lighthouse() calls, runLighthouse calls that failed, and
\*          how the latest call ended
\* json, html: the report files of each kind the job has written
\* backoffs: the 3 s waits the job has begun
NewJob ==
    [pc |-> "idle", attempt |-> 0, pend |-> JSUndefined, ret |-> JSUndefined,
     chrome |-> NoChrome, calls |-> 0, launchFails |-> 0, engineCalls |-> 0,
     fails |-> 0, json |-> 0, html |-> 0, backoffs |-> 0,
     last |-> JSUndefined]

NewJobs(us) == [i \in 1..Len(us) |-> NewJob]

(***************************************************************************)
(* index.js: runLighthouseWithRetry and runLighthouse, from one await to   *)
(* the next.                                                               *)
(***************************************************************************)
\* return r
Return(j, r) == [j EXCEPT !.pc = "done", !.ret = r]

\* runLighthouse(url) is called: it runs up to `await launch(...)`
StartCall(j) == [j EXCEPT !.pc = "launch", !.calls = @ + 1, !.chrome = NoChrome]

\* head of the for loop with attempt = a: the loop test, then the backoff
\* wait of an attempt after the first, or the call of the first attempt;
\* falling off the loop returns undefined
LoopHead(j, a) ==
    IF LessEq(Num(a), Inc(maxRetries))
    THEN IF a > 1
         THEN [j EXCEPT !.attempt = a, !.pc = "backoff", !.backoffs = @ + 1]
         ELSE StartCall([j EXCEPT !.attempt = a])
    ELSE Return(j, JSUndefined)

\* as AttemptReturned, with the retry test `attempt < maxRetries`
AttemptReturnedOffByOne(j, result) ==
    LET j2 == [j EXCEPT !.pend = JSUndefined,
                        !.fails = IF Truthy(result.error) THEN @ + 1 ELSE @,
                        !.last = [threw |-> FALSE, error |-> result.error]]
    IN  IF ~Truthy(result.error) THEN Return(j2, result)
        ELSE IF Truthy(result.error) /\ LessEq(Num(j.attempt + 1), maxRetries)
        THEN LoopHead(j2, j.attempt + 1)
        ELSE Return(j2, result)

\* as AttemptReturned, without the early return of a successful result
AttemptReturnedNoShortCircuit(j, result) ==
    LET j2 == [j EXCEPT !.pend = JSUndefined,
                        !.fails = IF Truthy(result.error) THEN @ + 1 ELSE @,
                        !.last = [threw |-> FALSE, error |-> result.error]]
    IN  IF LessEq(Num(j.attempt), maxRetries)
        THEN LoopHead(j2, j.attempt + 1)
        ELSE Return(j2, result)

\* runLighthouse returned `result` to runLighthouseWithRetry
AttemptReturned(j, result) ==
    LET j2 == [j EXCEPT !.pend = JSUndefined,
                        !.fails = IF Truthy(result.error) THEN @ + 1 ELSE @,
                        !.last = [threw |-> FALSE, error |-> result.error]]
    IN  IF ~Truthy(result.error) THEN Return(j2, result)
        ELSE IF Truthy(result.error) /\ LessEq(Num(j.attempt), maxRetries)
        THEN LoopHead(j2, j.attempt + 1)
        ELSE Return(j2, result)

\* as AttemptThrew, with the last attempt's exception thrown on
AttemptThrewRethrow(j, url, e) ==
    LET j2 == [j EXCEPT !.pend = JSUndefined,
                        !.fails = @ + 1,
                        !.last = [threw |-> TRUE, error |-> Str(e)]]
    IN  IF Greater(Num(j.attempt), maxRetries)
        THEN [j2 EXCEPT !.pc = "rejected"]
        ELSE LoopHead(j2, j.attempt + 1)

\* as AttemptThrew, the attempt after an exception made without the wait
AttemptThrewNoBackoff(j, url, e) ==
    LET j2 == [j EXCEPT !.pend = JSUndefined,
                        !.fails = @ + 1,
                        !.last = [threw |-> TRUE, error |-> Str(e)]]
    IN  IF Greater(Num(j.attempt), maxRetries)
        THEN Return(j2, FailureIndex(url, e))
        ELSE IF LessEq(Num(j.attempt + 1), Inc(maxRetries))
        THEN StartCall([j2 EXCEPT !.attempt = j.attempt + 1])
        ELSE Return(j2, JSUndefined)

\* runLighthouse threw e into the catch of runLighthouseWithRetry
AttemptThrew(j, url, e) ==
    LET j2 == [j EXCEPT !.pend = JSUndefined,
                        !.fails = @ + 1,
                        !.last = [threw |-> TRUE, error |-> Str(e)]]
    IN  IF Greater(Num(j.attempt), maxRetries)
        THEN Return(j2, FailureIndex(url, e))
        ELSE LoopHead(j2, j.attempt + 1)

\* fs.writeFileSync of the JSON report, then of the HTML report; w says
\* which of the two throws, if one does
Written(j, w) ==
    [j EXCEPT !.json = IF w \in {"ok", "html throws"} THEN @ + 1 ELSE @,
              !.html = IF w = "ok" THEN @ + 1 ELSE @]

\* launch() settled.  On a throw the catch block builds the failure record
\* and the finally block finds chrome undefined.
IndexLaunched(j, url, out) ==
    IF out.ok THEN [j EXCEPT !.pc = "engine", !.chrome.launched = TRUE]
    ELSE AttemptReturned([j EXCEPT !.launchFails = @ + 1],
                         FailureIndex(url, out.error))

\* lighthouse() settled; on success the report name is made, the two
\* reports are written and the scores are read.  Whatever happened, the
\* finally block calls kill().
IndexEngine(j, url, out, w) ==
    IF ~out.ok
    THEN [j EXCEPT !.pc = "kill", !.engineCalls = @ + 1,
                   !.pend = FailureIndex(url, out.error)]
    ELSE IF safeNameThrows(url)
    THEN [j EXCEPT !.pc = "kill", !.engineCalls = @ + 1,
                   !.pend = FailureIndex(url, UrlError)]
    ELSE [Written(j, w) EXCEPT
                   !.pc = "kill", !.engineCalls = @ + 1,
                   !.pend = IF w # "ok" THEN FailureIndex(url, WriteError)
                            ELSE SuccessIndex(url, out.lhr)]

\* chrome.kill() settled, inside finally: a throw replaces the pending return
IndexKilled(j, url, out) ==
    LET j2 == [j EXCEPT !.chrome.kills = @ + 1]
    IN  IF out.ok THEN AttemptReturned(j2, j.pend)
        ELSE AttemptThrew(j2, url, out.error)

(***************************************************************************)
(* The batched script: runLighthouse(u).catch(...), from one await to the  *)
(* next.                                                                   *)
(***************************************************************************)
\* the promise of the job settles with r (threw: through the .catch)
Settle(j, threw, r) ==
    [j EXCEPT !.pc = "done", !.ret = r, !.pend = JSUndefined,
              !.fails = IF threw THEN @ + 1 ELSE @,
              !.last = [threw |-> threw, error |-> Get(r, "error")]]

\* as Caught, without the .catch: the rejection reaches Promise.all
CaughtNot(j, url, e) ==
    [j EXCEPT !.pc = "rejected", !.pend = JSUndefined, !.fails = @ + 1,
              !.last = [threw |-> TRUE, error |-> Str(e)]]

\* what the scheduler's mapper makes of a rejected runLighthouse(u)
Caught(j, url, e) == Settle(j, TRUE, FailureBatch(url, e))

BatchLaunched(j, url, out) ==
    IF out.ok THEN [j EXCEPT !.pc = "engine", !.chrome.launched = TRUE]
    ELSE Caught([j EXCEPT !.launchFails = @ + 1], url, out.error)

\* lighthouse() settled: kill() is called on the success path only
BatchEngine(j, url, out) ==
    IF out.ok
    THEN [j EXCEPT !.pc = "kill", !.engineCalls = @ + 1, !.pend = out.lhr]
    ELSE Caught([j EXCEPT !.engineCalls = @ + 1], url, out.error)

\* chrome.kill() settled; then the report name is made, the reports are
\* written and the scores read
BatchKilled(j, url, out, w) ==
    LET j2 == [j EXCEPT !.chrome.kills = @ + 1]
    IN  IF ~out.ok THEN Caught(j2, url, out.error)
        ELSE IF safeNameThrows(url) THEN Caught(j2, url, UrlError)
        ELSE IF w # "ok" THEN Caught(Written(j2, w), url, WriteError)
        ELSE IF ScoresThrowBatch(j.pend) THEN Caught(Written(j2, w), url, TypeError)
        ELSE Settle(Written(j2, w), FALSE, SuccessBatch(url, j.pend))

(***************************************************************************)
(* The steps of a job.                                                     *)
(***************************************************************************)
\* the browser processes of job j that are running: launched, never killed
LiveOf(j) == IF j.chrome.launched /\ j.chrome.kills = 0 THEN 1 ELSE 0

\* the settling order after a step of job i
Settled(i) ==
    IF job'[i].pc \in {"done", "rejected"} /\ job[i].pc \notin {"done", "rejected"}
    THEN Append(order, i) ELSE order

\* launch() of job i settles
Launch(i) ==
    /\ job[i].pc = "launch"
    /\ \E out \in LaunchOutcomes :
        /\ job' = [job EXCEPT ![i] =
                     IF program = "index" THEN IndexLaunched(@, urls[i], out)
                     ELSE BatchLaunched(@, urls[i], out)]
        /\ live' = IF out.ok THEN live + 1 ELSE live
    /\ order' = Settled(i)
    /\ UNCHANGED <<named, program, pc, exitCode, fileExists, fileLines, urls,
                   maxRetries, batchSize, results, sched, csv, csvWrites>>

\* lighthouse() of job i settles
Engine(i) ==
    /\ job[i].pc = "engine"
    /\ \E out \in EngineOutcomes :
       \E w \in IF program = "index" /\ out.ok THEN WriteOutcomes ELSE {"ok"} :
          job' = [job EXCEPT ![i] =
                     IF program = "index" THEN IndexEngine(@, urls[i], out, w)
                     ELSE BatchEngine(@, urls[i], out)]
    /\ order' = Settled(i)
    /\ UNCHANGED <<named, program, pc, exitCode, fileExists, fileLines, urls,
                   maxRetries, batchSize, results, sched, live, csv, csvWrites>>

\* chrome.kill() of job i is called and settles
Kill(i) ==
    /\ job[i].pc = "kill"
    /\ live' = live - LiveOf(job[i])
    /\ \E out \in KillOutcomes :
       \E w \in IF program = "batch" /\ out.ok THEN WriteOutcomes ELSE {"ok"} :
          job' = [job EXCEPT ![i] =
                     IF program = "index" THEN IndexKilled(@, urls[i], out)
                     ELSE BatchKilled(@, urls[i], out, w)]
    /\ order' = Settled(i)
    /\ UNCHANGED <<named, program, pc, exitCode, fileExists, fileLines, urls,
                   maxRetries, batchSize, results, sched, csv, csvWrites>>

\* index.js: the 3 s wait before a retry is over, runLighthouse is called
Backoff(i) ==
    /\ job[i].pc = "backoff"
    /\ job' = [job EXCEPT ![i] = StartCall(@)]
    /\ UNCHANGED <<named, program, pc, exitCode, fileExists, fileLines, urls,
                   maxRetries, batchSize, results, sched, live, order, csv,
                   csvWrites>>

(***************************************************************************)
(* The schedulers: runAllTests (index.js) and runInBatches.                *)
(***************************************************************************)
Min(a, b) == IF a < b THEN a ELSE b

\* urls.slice(k, k + batchSize), as positions
BatchOf(k) == (k + 1)..Min(k + batchSize, Len(urls))

\* index.js: one turn of `for (const url of urls)` up to its await
SeqIterate(k) ==
    /\ sched' = [sched EXCEPT !.pc = "await", !.k = k]
    /\ job' = [job EXCEPT ![k] = LoopHead(@, 1)]
    /\ order' = Settled(k)

\* the batched script: batch.map(...) starts every job of the batch
BatchIterate(k) ==
    /\ sched' = [sched EXCEPT !.pc = "await", !.k = k]
    /\ job' = [i \in DOMAIN job |->
                 IF i \in BatchOf(k) THEN StartCall(job[i]) ELSE job[i]]
    /\ order' = order

\* the scheduler function is entered
SchedStart ==
    /\ pc \in {"run", "call"}
    /\ sched.pc = "start"
    /\ IF Len(urls) = 0
       THEN sched' = [sched EXCEPT !.pc = "returned"] /\ UNCHANGED <<job, order>>
       ELSE IF program = "index" THEN SeqIterate(1) ELSE BatchIterate(0)
    /\ UNCHANGED <<named, program, pc, exitCode, fileExists, fileLines, urls,
                   maxRetries, batchSize, results, live, csv, csvWrites>>

\* as Awaited, the batched scheduler going on when the first promise of
\* the batch has settled
AwaitedFirst == IF program = "index" THEN {sched.k} ELSE {sched.k + 1}

\* the promises the scheduler awaits
Awaited == IF program = "index" THEN {sched.k} ELSE BatchOf(sched.k)

\* as Collected, in the order the jobs settled
CollectedAsSettled ==
    LET settled == SelectSeq(order, LAMBDA i : i \in Awaited)
    IN  [n \in 1..Len(settled) |-> job[settled[n]].ret]

\* the results the scheduler appends, in the order it appends them
Collected == [n \in 1..Cardinality(Awaited) |->
                job[IF program = "index" THEN sched.k ELSE sched.k + n].ret]

\* as PaceNeeded, with the test `completed < total - 1`
PaceNeededButLast(k) == k < Len(urls) - 1

\* index.js: if (completed < total), the test before the pacing wait
PaceNeeded(k) == k < Len(urls)

\* `await runLighthouseWithRetry(url)` / `await Promise.all(promises)` is
\* over: every awaited promise fulfilled, or one of them rejected, which
\* the scheduler does not catch
SchedJoin ==
    /\ sched.pc = "await"
    /\ IF \E i \in Awaited : job[i].pc = "rejected" THEN TRUE
       ELSE \A i \in Awaited : job[i].pc = "done"
    /\ IF \E i \in Awaited : job[i].pc = "rejected"
       THEN /\ sched' = [sched EXCEPT !.pc = "threw"]
            /\ UNCHANGED <<results, job>>
       ELSE /\ results' = results \o Collected
            /\ job' = [i \in DOMAIN job |->
                         IF i \in Awaited
                         THEN [NewJob EXCEPT !.pc = "collected"]
                         ELSE job[i]]
            /\ sched' = IF program = "index" /\ ~PaceNeeded(sched.k)
                        THEN [sched EXCEPT !.pc = "returned"]
                        ELSE [sched EXCEPT !.pc = "pace", !.paces = @ + 1]
    /\ UNCHANGED <<named, program, pc, exitCode, fileExists, fileLines, urls,
                   maxRetries, batchSize, live, order, csv, csvWrites>>

\* the pacing wait (2 s in index.js, 500 ms in the batched script) is over
SchedPace ==
    /\ sched.pc = "pace"
    /\ IF program = "index" THEN SeqIterate(sched.k + 1)
       ELSE IF sched.k + batchSize < Len(urls)
            THEN BatchIterate(sched.k + batchSize)
            ELSE sched' = [sched EXCEPT !.pc = "returned"] /\ UNCHANGED <<job, order>>
    /\ UNCHANGED <<named, program, pc, exitCode, fileExists, fileLines, urls,
                   maxRetries, batchSize, results, live, csv, csvWrites>>

(***************************************************************************)
(* The summary file.                                                       *)
(***************************************************************************)
\* `${v}` in a template literal, for the values a bare field can hold
Text(v) ==
    IF IsNum(v) THEN ToString(v.num)
    ELSE IF IsStr(v) THEN v.str
    ELSE IF v = JSNull THEN "null"
    ELSE "undefined"

Quoted(v) == [quoted |-> v]
Bare(v) == [bare |-> Text(v)]

HeaderIndex == [header |-> "URL,Performance,Accessibility,BestPractices,SEO,Error"]
HeaderBatch == [header |-> "URL,Performance,Accessibility,BestPractices,SEO"]

\* the score field of a row: ${r.X || ""}
ScoreField(r, f) == Bare(Or(Get(r, f), Str("")))

\* index.js generateCSV: one row, as its comma-separated fields
RowIndex(r) ==
    << Quoted(Get(r, "url")),
       ScoreField(r, "Performance"), ScoreField(r, "Accessibility"),
       ScoreField(r, "BestPractices"), ScoreField(r, "SEO"),
       Quoted(Or(Get(r, "error"), Str(""))) >>

\* the batched script: one row
RowBatch(r) ==
    << Quoted(Get(r, "url")),
       ScoreField(r, "Performance"), ScoreField(r, "Accessibility"),
       ScoreField(r, "BestPractices"), ScoreField(r, "SEO") >>

\* [header, ...rows]; reading r.url of an undefined result throws
generateCSV(rs) ==
    IF \E i \in 1..Len(rs) : rs[i] = JSUndefined
    THEN [threw |-> TRUE, lines |-> <<>>]
    ELSE [threw |-> FALSE,
          lines |-> <<HeaderIndex>> \o [i \in 1..Len(rs) |-> RowIndex(rs[i])]]

SummaryBatch(rs) == <<HeaderBatch>> \o [i \in 1..Len(rs) |-> RowBatch(rs[i])]

(***************************************************************************)
(* The main flows.                                                         *)
(***************************************************************************)
\* index.js main() up to runAllTests; the batched script's top level up to
\* runInBatches(urls, 1)
Load ==
    /\ pc = "load"
    /\ IF program = "index"
       THEN LET r == loadUrlsIndex(fileExists, fileLines)
            IN  IF r.threw \/ Len(r.urls) = 0
                THEN /\ pc' = "exit"
                     /\ exitCode' = 1
                     /\ UNCHANGED <<urls, job>>
                ELSE /\ pc' = "run"
                     /\ urls' = r.urls
                     /\ job' = NewJobs(r.urls)
                     /\ UNCHANGED exitCode
       ELSE /\ pc' = "run"
            /\ urls' = loadUrlsBatch(fileExists, fileLines)
            /\ job' = NewJobs(loadUrlsBatch(fileExists, fileLines))
            /\ UNCHANGED exitCode
    /\ UNCHANGED <<named, program, fileExists, fileLines, maxRetries, batchSize,
                   results, sched, live, order, csv, csvWrites>>

\* the scheduler returned: the summary is written and the process ends.  An
\* exception in index.js main() reaches main().catch, which exits with 1; a
\* rejection of the batched script's top-level promise ends the process
\* with status 1 too.
WriteSummary ==
    /\ pc = "run"
    /\ sched.pc \in {"returned", "threw"}
    /\ pc' = "exit"
    /\ IF sched.pc = "threw"
       THEN exitCode' = 1 /\ UNCHANGED <<csv, csvWrites>>
       ELSE IF program = "index"
       THEN LET w == generateCSV(results)
            IN  IF w.threw
                THEN exitCode' = 1 /\ UNCHANGED <<csv, csvWrites>>
                ELSE exitCode' = 0 /\ csv' = w.lines /\ csvWrites' = csvWrites + 1
       ELSE exitCode' = 0 /\ csv' = SummaryBatch(results) /\ csvWrites' = csvWrites + 1
    /\ UNCHANGED <<named, program, fileExists, fileLines, urls, maxRetries, batchSize,
                   results, sched, job, live, order>>

(***************************************************************************)
(* Specifications.                                                         *)
(***************************************************************************)
\* parseInt(options.retries): an integer or NaN
RetriesSet == {Num(n) : n \in (-1)..MaxRetries} \cup {JSNaN}

RECURSIVE SeqsUpTo(_, _)
SeqsUpTo(S, n) ==
    IF n = 0 THEN {<<>>}
    ELSE LET shorter == SeqsUpTo(S, n - 1)
         IN  shorter \cup {Append(q, x) : q \in shorter, x \in S}

\* Spec: a whole run of either script
Init ==
    /\ program \in {"index", "batch"}
    /\ pc = "load"
    /\ exitCode = -1
    /\ fileExists \in BOOLEAN
    /\ fileLines \in IF fileExists THEN SeqsUpTo(LineSet, MaxLines) ELSE {<<>>}
    /\ urls = <<>>
    /\ maxRetries \in IF program = "index" THEN RetriesSet ELSE {JSUndefined}
    /\ batchSize = 1
    /\ results = <<>>
    /\ sched = [pc |-> "start", k |-> 0, paces |-> 0]
    /\ job = <<>>
    /\ live = 0
    /\ order = <<>>
    /\ csv = <<>>
    /\ csvWrites = 0
    /\ named = NotNamed

Next ==
    \/ Load
    \/ SchedStart
    \/ SchedJoin
    \/ SchedPace
    \/ \E i \in DOMAIN job : Launch(i)
    \/ \E i \in DOMAIN job : Engine(i)
    \/ \E i \in DOMAIN job : Kill(i)
    \/ \E i \in DOMAIN job : Backoff(i)
    \/ WriteSummary

Spec == Init /\ [][Next]_vars

\* SpecSched: runAllTests(urls) / runInBatches(urls, batchSize) called on
\* any list of URLs
UrlSet == {Trim(LineGood), Trim(LinePadded)}

InitSched ==
    /\ program \in {"index", "batch"}
    /\ pc = "call"
    /\ exitCode = -1
    /\ fileExists = FALSE
    /\ fileLines = <<>>
    /\ urls \in SeqsUpTo(UrlSet, MaxUrls)
    /\ maxRetries \in IF program = "index" THEN RetriesSet ELSE {JSUndefined}
    /\ batchSize \in IF program = "batch" THEN 1..MaxBatch ELSE {1}
    /\ results = <<>>
    /\ sched = [pc |-> "start", k |-> 0, paces |-> 0]
    /\ job = NewJobs(urls)
    /\ live = 0
    /\ order = <<>>
    /\ csv = <<>>
    /\ csvWrites = 0
    /\ named = NotNamed

NextSched ==
    \/ SchedStart
    \/ SchedJoin
    \/ SchedPace
    \/ \E i \in DOMAIN job : Launch(i)
    \/ \E i \in DOMAIN job : Engine(i)
    \/ \E i \in DOMAIN job : Kill(i)
    \/ \E i \in DOMAIN job : Backoff(i)

SpecSched == InitSched /\ [][NextSched]_vars

\* SpecLive: main() from the call of the scheduler on, for a list of any
\* length the loading may have produced (the batched script passes
\* batchSize 1),
\* in a run in which every awaited call settles and every timer fires:
\* launch(), lighthouse() and chrome.kill() return or throw, the setTimeout
\* waits end, and the event loop runs a continuation that is ready.  So the
\* run never stops while one of its steps can be taken.
InitLive ==
    /\ program \in {"index", "batch"}
    /\ pc = "run"
    /\ exitCode = -1
    /\ fileExists = FALSE
    /\ fileLines = <<>>
    /\ urls \in SeqsUpTo({Trim(LineGood)}, MaxUrls)
    /\ maxRetries \in IF program = "index" THEN RetriesSet ELSE {JSUndefined}
    /\ batchSize = 1
    /\ results = <<>>
    /\ sched = [pc |-> "start", k |-> 0, paces |-> 0]
    /\ job = NewJobs(urls)
    /\ live = 0
    /\ order = <<>>
    /\ csv = <<>>
    /\ csvWrites = 0
    /\ named = NotNamed

NextLive ==
    \/ SchedStart
    \/ SchedJoin
    \/ SchedPace
    \/ \E i \in DOMAIN job : Launch(i)
    \/ \E i \in DOMAIN job : Engine(i)
    \/ \E i \in DOMAIN job : Kill(i)
    \/ \E i \in DOMAIN job : Backoff(i)
    \/ WriteSummary

Fairness == WF_vars(NextLive)

SpecLive == InitLive /\ [][NextLive]_vars /\ Fairness

\* SpecBatch: runInBatches(urls, batchSize) alone, on lists long enough
\* for a batch of several jobs to be followed by another batch
InitBatch ==
    /\ program = "batch"
    /\ pc = "call"
    /\ exitCode = -1
    /\ fileExists = FALSE
    /\ fileLines = <<>>
    /\ urls \in SeqsUpTo(UrlSet, MaxBatchUrls)
    /\ maxRetries = JSUndefined
    /\ batchSize \in 1..MaxBatch
    /\ results = <<>>
    /\ sched = [pc |-> "start", k |-> 0, paces |-> 0]
    /\ job = NewJobs(urls)
    /\ live = 0
    /\ order = <<>>
    /\ csv = <<>>
    /\ csvWrites = 0
    /\ named = NotNamed

NextBatch ==
    \/ SchedStart
    \/ SchedJoin
    \/ SchedPace
    \/ \E i \in DOMAIN job : Launch(i)
    \/ \E i \in DOMAIN job : Engine(i)
    \/ \E i \in DOMAIN job : Kill(i)

SpecBatch == InitBatch /\ [][NextBatch]_vars

\* SpecName: safeName alone, called for two URLs at two clock readings
HostChars == {"a", "b", ".", "_"}
Hosts == {h \in SeqsUpTo(HostChars, MaxHost) :
             /\ h # <<>>
             /\ h[1] \in Letters
             /\ h[Len(h)] \in Letters}
UrlsToName ==
    {<<"h", "t", "t", "p", ":", "/", "/">> \o h \o rest :
        h \in Hosts, rest \in {<<>>, <<":", "8", "/", "a">>}}
Instants == {0, 1}

InitName ==
    /\ program = "index"
    /\ pc = "name"
    /\ exitCode = -1
    /\ fileExists = FALSE
    /\ fileLines = <<>>
    /\ urls = <<>>
    /\ maxRetries = JSUndefined
    /\ batchSize = 1
    /\ results = <<>>
    /\ sched = [pc |-> "start", k |-> 0, paces |-> 0]
    /\ job = <<>>
    /\ live = 0
    /\ order = <<>>
    /\ csv = <<>>
    /\ csvWrites = 0
    /\ \E u1 \in UrlsToName, u2 \in UrlsToName, t1 \in Instants, t2 \in Instants :
          named = [urls |-> <<u1, u2>>, now |-> <<t1, t2>>, names |-> <<>>]

\* const name = safeName(url), for each of the two
NameReports ==
    /\ pc = "name"
    /\ named.names = <<>>
    /\ named' = [named EXCEPT !.names =
                    [i \in 1..2 |-> safeName(named.urls[i], named.now[i])]]
    /\ UNCHANGED <<program, pc, exitCode, fileExists, fileLines, urls,
                   maxRetries, batchSize, results, sched, job, live, order,
                   csv, csvWrites>>

NextName == NameReports

SpecName == InitName /\ [][NextName]_vars

(***************************************************************************)
(* Properties.                                                             *)
(***************************************************************************)
\* maxRetries >= 0 (the batched script has no retries)
RetriesValid == program = "index" => LessEq(Num(0), maxRetries)

\* runLighthouse calls of job j that have ended, and those that ended well
Completed(j) == IF j.pc \in {"launch", "engine", "kill"} THEN j.calls - 1 ELSE j.calls
Successes(j) == Completed(j) - j.fails

ScoreNames == {"Performance", "Accessibility", "BestPractices", "SEO"}

\* C1: for every list of N URLs (duplicates allowed) and every
\* maxRetries >= 0, the scheduler returns exactly N results and the i-th
\* result carries the i-th URL, in sequential and in batched mode, whatever
\* the order in which the jobs of a batch settle.
C1_ResultsInInputOrder ==
    (sched.pc = "returned" /\ RetriesValid) =>
        /\ Len(results) = Len(urls)
        /\ \A i \in 1..Len(urls) : Get(results[i], "url") = Txt(urls[i])

\* a batch of two different URLs whose second job settled first
C1_Witness ==
    /\ sched.pc = "returned"
    /\ program = "batch"
    /\ batchSize = 2
    /\ Len(urls) = 2
    /\ urls[1] # urls[2]
    /\ order = <<2, 1>>
    /\ Len(results) = 2
    /\ Get(results[1], "url") = Txt(urls[1])

\* C2: with maxRetries = R >= 0 a job never makes more than R+1 attempts,
\* and a job whose every attempt failed made exactly R+1 attempts and
\* returns a failure record for its URL whose error is that of attempt R+1.
C2_RetryBound ==
    \A i \in DOMAIN job :
        (program = "index" /\ RetriesValid) =>
            /\ job[i].calls <= maxRetries.num + 1
            /\ (job[i].pc = "done" /\ job[i].fails = job[i].calls) =>
                  /\ job[i].calls = maxRetries.num + 1
                  /\ Truthy(job[i].ret.error)
                  /\ job[i].ret.error = job[i].last.error
                  /\ job[i].ret.url = Txt(urls[i])
                  /\ \A f \in ScoreNames : job[i].ret[f] = NA

\* three failed attempts with maxRetries = 2, the last one by a kill() that
\* threw after an engine success or failure
C2_Witness ==
    \E i \in DOMAIN job :
        /\ program = "index"
        /\ maxRetries = Num(2)
        /\ job[i].pc = "done"
        /\ job[i].calls = 3
        /\ job[i].fails = 3
        /\ job[i].last.threw
        /\ job[i].ret.error = Str(KillError)

\* the shape of a success record of index.js
IsSuccessIndex(r) ==
    /\ Get(r, "error") = JSNull
    /\ \A f \in ScoreNames : IsNum(Get(r, f)) \/ Get(r, f) = NA

\* C3, as claimed: a job whose attempt k is the first to succeed makes
\* exactly k attempts, k browser launches and k engine invocations, none
\* after the success, and returns a success.
C3_ShortCircuitEngineCount ==
    \A i \in DOMAIN job :
        (program = "index" /\ RetriesValid) =>
            /\ Successes(job[i]) <= 1
            /\ Successes(job[i]) = 1 =>
                  /\ job[i].pc = "done"
                  /\ job[i].calls <= maxRetries.num + 1
                  /\ job[i].calls = job[i].fails + 1
                  /\ IsSuccessIndex(job[i].ret)
                  /\ job[i].engineCalls = job[i].calls

\* C3, amended: a job whose attempt k is the first to succeed makes exactly
\* k attempts, each with one launch() call, none after the success, and
\* returns a success; the engine is invoked once per attempt whose launch
\* succeeded, the successful attempt among them.
C3_ShortCircuit ==
    \A i \in DOMAIN job :
        (program = "index" /\ RetriesValid) =>
            /\ Successes(job[i]) <= 1
            /\ Successes(job[i]) = 1 =>
                  /\ job[i].pc = "done"
                  /\ job[i].calls <= maxRetries.num + 1
                  /\ job[i].calls = job[i].fails + 1
                  /\ IsSuccessIndex(job[i].ret)
                  /\ job[i].ret.url = Txt(urls[i])
                  /\ job[i].engineCalls = job[i].calls - job[i].launchFails
                  /\ job[i].engineCalls >= 1

\* a success on attempt 2 after an attempt whose launch failed
C3_Witness ==
    \E i \in DOMAIN job :
        /\ program = "index"
        /\ maxRetries = Num(2)
        /\ job[i].pc = "done"
        /\ job[i].calls = 2
        /\ job[i].fails = 1
        /\ job[i].launchFails = 1
        /\ job[i].engineCalls = 1
        /\ job[i].ret.error = JSNull
        /\ IsNum(job[i].ret.Performance)

\* C4: every successful launch is followed by exactly one kill of that
\* browser before the audit call returns, on every exit path, and when the
\* run has ended no launched browser is left un-killed.
C4_LaunchPairedWithKill ==
    /\ \A i \in DOMAIN job :
          /\ job[i].chrome.kills <= 1
          /\ job[i].chrome.kills = 1 => job[i].chrome.launched
          /\ (job[i].pc \in {"backoff", "done", "rejected"} /\ job[i].chrome.launched)
                => job[i].chrome.kills = 1
    /\ sched.pc \in {"returned", "threw"} => live = 0

\* C5: a failure of one job, an exception included, never aborts the run:
\* it becomes a failure result for that URL only, and every URL still gets
\* its own result.
C5_FailureIsolated ==
    /\ sched.pc # "threw"
    /\ \A i \in DOMAIN job : job[i].pc # "rejected"
    /\ \A i \in DOMAIN job :
          (job[i].pc = "done" /\ job[i].last # JSUndefined /\ job[i].last.threw) =>
              /\ Get(job[i].ret, "url") = Txt(urls[i])
              /\ Truthy(Get(job[i].ret, "error"))
    /\ (sched.pc = "returned" /\ \E i \in 1..Len(results) : Truthy(Get(results[i], "error")))
          => /\ Len(results) = Len(urls)
             /\ \A k \in 1..Len(urls) : Get(results[k], "url") = Txt(urls[k])

\* two URLs: the first job ended by an exception (kill() threw), the second
\* one succeeded
C5_Witness ==
    /\ sched.pc = "returned"
    /\ Len(urls) = 2
    /\ Len(results) = 2
    /\ Get(results[1], "error") = Str(KillError)
    /\ ~Truthy(Get(results[2], "error"))
    /\ IsNum(Get(results[2], "Performance"))

\* C6: the single-audit operation (runLighthouse of index.js) never raises;
\* on every failure path it returns a failure record whose four scores are
\* "N/A" and whose error holds the failure description.
C6_AuditNeverRaises ==
    \A i \in DOMAIN job :
        (program = "index" /\ job[i].last # JSUndefined) =>
            /\ ~job[i].last.threw
            /\ (job[i].pc = "done" /\ Truthy(job[i].last.error)) =>
                  /\ job[i].ret.url = Txt(urls[i])
                  /\ job[i].ret.error = job[i].last.error
                  /\ \A f \in ScoreNames : job[i].ret[f] = NA

\* C7: URL loading returns, in file order, the trimmed lines that begin
\* with an HTTP(S) scheme and parse as a URL when the file exists and has
\* such a line, the default set otherwise, and never aborts the run.
HttpScheme == <<"h", "t", "t", "p", ":">>
HttpsScheme == <<"h", "t", "t", "p", "s", ":">>
IsHttpUrl(l) ==
    (StartsWith(l, HttpScheme) \/ StartsWith(l, HttpsScheme)) /\ ParsesAsUrl(l)

ExpectedUrls ==
    LET kept == SelectSeq(TrimAll(fileLines), IsHttpUrl)
    IN  IF fileExists /\ Len(kept) > 0 THEN kept
        ELSE IF program = "index" THEN defaultUrlsIndex ELSE defaultUrlsBatch

C7_LoadUrls == pc # "load" => urls = ExpectedUrls

\* C8: when the validated URL list is empty, the run ends with a non-zero
\* exit status, having launched no browser and written no summary.
C8_EmptyListIsFatal ==
    (pc = "exit" /\ Len(urls) = 0 /\ ~(program = "index" /\ ~fileExists)) =>
        /\ exitCode # 0
        /\ csvWrites = 0
        /\ live = 0

\* C9: the summary is the header row and one row per result in result
\* order; each of a result's four scores is printed bare, an integer 0..100
\* as that integer and the sentinel as "N/A"; the URL is quoted.
ScoreColumn == [Performance |-> 2, Accessibility |-> 3, BestPractices |-> 4, SEO |-> 5]

C9_SummaryRows ==
    csvWrites > 0 =>
        /\ Len(csv) = Len(results) + 1
        /\ "header" \in DOMAIN csv[1]
        /\ \A i \in 1..Len(results) :
              /\ csv[i + 1][1] = Quoted(Txt(urls[i]))
              /\ \A f \in ScoreNames :
                    LET v == Get(results[i], f)
                    IN  /\ IsNum(v) => csv[i + 1][ScoreColumn[f]] = [bare |-> ToString(v.num)]
                        /\ v = NA => csv[i + 1][ScoreColumn[f]] = [bare |-> "N/A"]

\* C10: the number of browser processes launched and not yet killed never
\* exceeds the concurrency limit: 1 in sequential mode, batchSize in
\* batched mode.
C10_LiveWithinLimit == live <= (IF program = "index" THEN 1 ELSE batchSize)

\* C11: in a run with a non-empty URL list the summary is written exactly
\* once, and only after every job reached its terminal result, with no
\* attempt, backoff or browser process of any job still in progress; a run
\* that fails before that point writes no summary.
C11_SummaryOnceAfterAllJobs ==
    /\ csvWrites <= 1
    /\ (csvWrites = 1 /\ Len(urls) > 0) =>
          /\ Len(results) = Len(urls)
          /\ \A i \in DOMAIN job : job[i].pc = "collected"
          /\ live = 0
    /\ (pc = "exit" /\ Len(urls) > 0 /\ exitCode = 0) => csvWrites = 1
    /\ (pc = "exit" /\ exitCode # 0) => csvWrites = 0

\* C12: a run over a non-empty URL list ends with exit status 0 and a
\* written summary whatever results its jobs produce, every job failing
\* included; the exit status is non-zero only when no valid URL was found or
\* the start-up failed, that is, when no URL list was handed to the
\* scheduler.
C12_ExitZeroOnCompletion ==
    pc = "exit" =>
        /\ Len(urls) > 0 => (exitCode = 0 /\ csvWrites = 1)
        /\ exitCode # 0 => Len(urls) = 0

\* C13: provided every browser launch, engine call and browser kill returns
\* or throws, for every URL list and every maxRetries >= 0 the run
\* terminates, and with a non-empty list it terminates with one result per
\* URL and the summary written; a job whose last engine call timed out
\* ends as a failure result of its own URL, the other jobs still getting
\* their results.
TimeoutError == "timeout"

TimedOutIsFailure ==
    \A i \in DOMAIN job :
        (/\ job[i].pc = "done"
         /\ job[i].last # JSUndefined
         /\ job[i].last.error = Str(TimeoutError))
            => /\ Get(job[i].ret, "url") = Txt(urls[i])
               /\ Get(job[i].ret, "error") = Str(TimeoutError)

RunEnded ==
    /\ pc = "exit"
    /\ Len(urls) > 0 => (csvWrites = 1 /\ Len(results) = Len(urls))

C13_RunTerminates == RetriesValid => (<>RunEnded /\ []TimedOutIsFailure)

\* a finished run of two URLs whose first job ended on an engine timeout
\* and whose second job succeeded
C13_Witness ==
    /\ pc = "exit"
    /\ csvWrites = 1
    /\ Len(urls) = 2
    /\ Len(results) = 2
    /\ Get(results[1], "error") = Str(TimeoutError)
    /\ ~Truthy(Get(results[2], "error"))
    /\ IsNum(Get(results[2], "SEO"))

\* C14: the report name is a function of (URL, timestamp) only, and for one
\* fixed timestamp two URLs with different hosts never get the same name.
C14_NamesDistinct ==
    named.names # <<>> =>
        /\ (named.urls[1] = named.urls[2] /\ named.now[1] = named.now[2])
              => named.names[1] = named.names[2]
        /\ (named.now[1] = named.now[2]
            /\ Hostname(named.urls[1]) # Hostname(named.urls[2]))
              => named.names[1] # named.names[2]

\* C15: in batched mode every job of a batch is started before the
\* scheduler waits; the scheduler waits for every job of the batch, also
\* when some of them fail; and no job of a later batch is started before
\* every job of the batches before it has completed.
BatchIndex(i) == (i - 1) \div batchSize

C15_BatchBarrier ==
    program = "batch" =>
        /\ sched.pc = "await" =>
              \A i \in DOMAIN job :
                  BatchIndex(i) = BatchIndex(sched.k + 1) => job[i].pc # "idle"
        /\ sched.pc # "threw"
        /\ \A i \in DOMAIN job :
              job[i].pc = "collected" =>
                  /\ i <= Len(results)
                  /\ \A k \in DOMAIN job :
                        BatchIndex(k) = BatchIndex(i) =>
                            (job[k].pc = "collected" /\ k <= Len(results))
        /\ \A i \in DOMAIN job :
              job[i].pc # "idle" =>
                  \A k \in DOMAIN job :
                      BatchIndex(k) < BatchIndex(i) => job[k].pc = "collected"

\* three URLs in batches of two: the first job of the first batch has
\* failed, the second is still running, the scheduler waits and the third
\* job has not been started
C15_Witness ==
    /\ program = "batch"
    /\ batchSize = 2
    /\ Len(urls) = 3
    /\ sched.pc = "await"
    /\ sched.k = 0
    /\ job[1].pc = "done"
    /\ Truthy(Get(job[1].ret, "error"))
    /\ job[2].pc = "engine"
    /\ job[3].pc = "idle"
    /\ results = <<>>

\* C16: in both scheduling modes a failing job is retried: a failure result
\* of a URL is produced only after maxRetries + 1 attempts, never after a
\* single failed attempt when maxRetries >= 1.
C16_FailureAfterRetries ==
    \A i \in DOMAIN job :
        (/\ job[i].pc = "done"
         /\ Truthy(Get(job[i].ret, "error"))
         /\ program = "index" => LessEq(Num(1), maxRetries))
            => /\ job[i].calls >= 2
               /\ program = "index" => job[i].calls = maxRetries.num + 1

\* C17: a job writes exactly two report files, one JSON and one HTML, if
\* its final result is a success, and none if it is a failure (so that
\* over a run, which has one result per job, the report pairs written are
\* as many as the success results).
C17_ArtifactsOfSuccessOnly ==
    \A i \in DOMAIN job :
        (RetriesValid /\ job[i].pc = "done") =>
            IF Truthy(Get(job[i].ret, "error"))
            THEN job[i].json = 0 /\ job[i].html = 0
            ELSE job[i].json = 1 /\ job[i].html = 1

\* C18: for every value of the retries option, negative and non-numeric
\* ones included, runLighthouseWithRetry makes at least one attempt and
\* returns a record that carries the URL, so that the summary writer gets
\* exactly one well-formed result per URL.
C18_OneResultWhateverRetries ==
    program = "index" =>
        /\ \A i \in DOMAIN job :
              job[i].pc = "done" =>
                  /\ job[i].calls >= 1
                  /\ Get(job[i].ret, "url") = Txt(urls[i])
        /\ sched.pc = "returned" =>
              /\ Len(results) = Len(urls)
              /\ \A i \in 1..Len(results) : Get(results[i], "url") = Txt(urls[i])
              /\ ~generateCSV(results).threw

\* C19: in sequential mode the attempts and backoffs of a job are all over
\* before the first attempt of the next URL starts, and one pacing wait is
\* made between each two consecutive jobs and none after the last: a run
\* over N >= 1 URLs makes exactly N-1 pacing waits.
C19_SequentialPacing ==
    program = "index" =>
        /\ \A i \in DOMAIN job : \A k \in DOMAIN job :
              (k < i /\ job[i].pc # "idle") => job[k].pc = "collected"
        /\ sched.pc = "await" => sched.paces = sched.k - 1
        /\ sched.pc = "pace" => (sched.paces = sched.k /\ sched.k < Len(urls))
        /\ (sched.pc = "returned" /\ Len(urls) >= 1) =>
              (sched.paces = Len(urls) - 1 /\ Len(results) = Len(urls))

\* a finished sequential run over two URLs, the first of which failed on
\* all its three attempts: one pacing wait
C19_Witness ==
    /\ program = "index"
    /\ maxRetries = Num(2)
    /\ sched.pc = "returned"
    /\ Len(urls) = 2
    /\ Len(results) = 2
    /\ Truthy(Get(results[1], "error"))
    /\ sched.paces = 1

\* C20: within one job exactly one backoff wait is made between every two
\* consecutive attempts, whether the earlier one failed by returning a
\* failure record or by throwing; none is made before attempt 1 and none
\* after the attempt that gives the job's result.
C20_OneBackoffBetweenAttempts ==
    \A i \in DOMAIN job :
        program = "index" =>
            /\ job[i].pc \in {"launch", "engine", "kill"} =>
                  job[i].backoffs = job[i].calls - 1
            /\ job[i].pc = "backoff" =>
                  (job[i].calls >= 1 /\ job[i].backoffs = job[i].calls
                   /\ job[i].fails = job[i].calls)
            /\ job[i].pc = "done" =>
                  job[i].backoffs = (IF job[i].calls = 0 THEN 0 ELSE job[i].calls - 1)

\* a job in its second backoff wait: attempt 1 returned a failure record
\* (launch failed), attempt 2 threw (kill failed)
C20_Witness ==
    \E i \in DOMAIN job :
        /\ program = "index"
        /\ job[i].pc = "backoff"
        /\ job[i].calls = 2
        /\ job[i].backoffs = 2
        /\ job[i].launchFails = 1
        /\ job[i].last.threw

====
